---- MODULE Spec2Model ----
(***************************************************************************)
(* A model of review-reminder.py: one run of the script that lists the     *)
(* open merge requests of the configured GitLab projects, decides per      *)
(* merge request who is to be reminded, and posts one card to a Teams      *)
(* webhook.                                                                *)
(*                                                                         *)
(* Three specifications share the operators that model the code:           *)
(*   Spec       the whole run (lines 133-226), one step per upstream call  *)
(*   SpecEval   the per-merge-request decision (lines 153-169) on its own  *)
(*   SpecStale  the staleness count (lines 171-181) on its own             *)
(***************************************************************************)
EXTENDS Integers, Sequences, FiniteSets

\* ------------------------------------------------------------------ bounds

\* user ids 1..NumUsers known to the upstream in a whole run
NumUsers == 2
\* entries of GITLAB_PROJECTS
MaxProjects == 2
\* merge requests in one response of the merge-request list
MaxMRs == 1
\* the project-scoped identifiers 1..MaxIid of merge requests
MaxIid == 2
\* notes over all discussions of one merge request, in a whole run
MaxRunNotes == 1
\* user ids 1..NumEvalUsers when the decision is checked on its own
NumEvalUsers == 2
\* notes over all discussions of one merge request, decision on its own
MaxNotes == 2
\* days covered by the timestamps, staleness on its own
MaxDay == 13
\* instants of one day told apart (times of day)
TicksPerDay == 2

\* ------------------------------------------------------- upstream responses

\* a note of a discussion: the resolved key is present only on resolvable notes
Notes(users) ==
    [author : users] \cup [author : users, resolved : BOOLEAN]

RECURSIVE NoteSeqs(_, _)
\* the note lists of exactly n notes
NoteSeqs(users, n) ==
    IF n = 0 THEN {<<>>}
    ELSE {<<note>> \o rest : note \in Notes(users), rest \in NoteSeqs(users, n - 1)}

RECURSIVE DiscussionLists(_, _)
\* responses of the discussions endpoint holding at most n notes; upstream, a
\* discussion holds at least one note
DiscussionLists(users, n) ==
    {<<>>} \cup
    UNION {{<<[notes |-> ns]>> \o rest :
                ns \in NoteSeqs(users, k),
                rest \in DiscussionLists(users, n - k)} : k \in 1..n}

\* ------------------------------------------------------ the decision (pure)

\* lines 157-159: the authors of the notes of one discussion that carry the
\* resolved key with a false value
UnresolvedNoteAuthors(notes) ==
    {notes[n].author :
        n \in {n \in DOMAIN notes : "resolved" \in DOMAIN notes[n] /\ ~notes[n].resolved}}

\* lines 155-159: authors_unresolved_discussions, over every discussion
AuthorsUnresolvedDiscussions(discussions) ==
    UNION {UnresolvedNoteAuthors(discussions[d].notes) : d \in DOMAIN discussions}

\* lines 163-169, without the author added by the escalation rule
PendingWithoutAuthor(reviewers, approvers, unresolved, author) ==
    LET pending == reviewers \ approvers
    IN  IF Cardinality(unresolved) > 0 \/ Cardinality(pending) = 0
        THEN pending \ unresolved
        ELSE pending

\* lines 163-169, the unresolved authors taken out after the author is added
PendingAuthorRemoved(reviewers, approvers, unresolved, author) ==
    LET pending == reviewers \ approvers
    IN  IF Cardinality(unresolved) > 0 \/ Cardinality(pending) = 0
        THEN (pending \cup {author}) \ unresolved
        ELSE pending

\* lines 163-169, escalating only when nobody is pending
PendingEscalateWhenEmpty(reviewers, approvers, unresolved, author) ==
    LET pending == reviewers \ approvers
    IN  IF Cardinality(pending) = 0
        THEN (pending \ unresolved) \cup {author}
        ELSE pending

\* lines 163-169, approvers not taken out
PendingKeepsApprovers(reviewers, approvers, unresolved, author) ==
    LET pending == reviewers
    IN  IF Cardinality(unresolved) > 0 \/ Cardinality(pending) = 0
        THEN (pending \ unresolved) \cup {author}
        ELSE pending

\* lines 163-169: pending = reviewers - approvers, then the escalation rule
Pending(reviewers, approvers, unresolved, author) ==
    LET pending == reviewers \ approvers
    IN  IF Cardinality(unresolved) > 0 \/ Cardinality(pending) = 0
        THEN (pending \ unresolved) \cup {author}
        ELSE pending

\* ----------------------------------------------------------- staleness (pure)

\* a timestamp is a count of ticks since a Monday 00:00; datetime.weekday():
\* Monday is 0, Sunday is 6
Weekday(t) == (t \div TicksPerDay) % 7

\* timedelta.days of (later - earlier): whole days, rounded towards minus infinity
DeltaDays(later, earlier) ==
    IF later >= earlier
    THEN (later - earlier) \div TicksPerDay
    ELSE -(((earlier - later) + TicksPerDay - 1) \div TicksPerDay)

\* lines 176-177: the weekdays among updated_date + 1 day, ..., + delta.days days
StaleDays(updated_date, current_date) ==
    Cardinality({idx \in 0 .. DeltaDays(current_date, updated_date) - 1 :
                    Weekday(updated_date + (idx + 1) * TicksPerDay) < 5})

\* lines 179-181: the label, the empty text when there is none
StaleLabel(days) == IF days > 2 THEN <<days, "days old">> ELSE <<>>


\* ------------------------------------------------------------------- state

VARIABLES
    \* configuration and upstream profiles, fixed for a run
    projects,          \* GITLAB_PROJECTS.split(','), <<>> when the variable is unset
    user_emails,       \* USER_EMAILS: username -> email
    public_email,      \* upstream: user id -> public_email of the profile
    \* the script's position and its variables
    pc,
    project_idx,       \* position of the project loop in projects
    project_id,
    mr_list,           \* the response behind the lazy filter of line 146
    mr_pos,            \* first entry of mr_list the filter has not consumed
    merge_request,
    discussions,
    approvers,
    authors_unresolved_discussions,
    pending,
    title,
    project_body,
    body,
    entities,
    notified_mrs,
    notified_people,
    summary,           \* the printed line: <<>> before it is printed
    updated_date,
    current_date,
    stale_days,
    stale,
    \* the outside world and what the run has been through
    posts,             \* webhook POSTs attempted
    calls,             \* upstream requests sent, in order
    upstream_failed,   \* an upstream call answered with a non-success status
    evaluated,         \* per merge request decided on: its url and pending set
    snapshot,          \* the accumulators when mr_list was received
    nondraft_fetched   \* some response held a merge request that is no draft

vars == <<projects, user_emails, public_email, pc, project_idx, project_id,
          mr_list, mr_pos, merge_request, discussions, approvers,
          authors_unresolved_discussions, pending, title, project_body, body,
          entities, notified_mrs, notified_people, summary, updated_date,
          current_date, stale_days, stale, posts, calls, upstream_failed,
          evaluated, snapshot, nondraft_fetched>>

configVars == <<projects, user_emails, public_email>>
evalVars == <<discussions, approvers>>
staleVars == <<updated_date, current_date, stale_days, stale>>
mrVars == <<merge_request, authors_unresolved_discussions, pending, title>>
reportVars == <<project_body, body, entities, notified_mrs, notified_people>>

Users == 1..NumUsers
EvalUsers == 1..NumEvalUsers
ProjectNames == {"a", "b"}
\* no project found by the search: None
NoProject == 0
\* upstream: the id of the first project the search for a name finds
FirstMatch(project) == IF project = "a" THEN 1 ELSE 2
Iids == 1..MaxIid

\* ------------------------------------------------------------ user profiles

Username(u) == <<"username", u>>

\* upstream display name: user 1 has none
ProfileName(u) == IF u = 1 THEN <<>> ELSE <<"name", u>>

\* lines 68-84: the profile, name and email with their fallbacks; a value
\* that is None or empty is <<>>
get_user_info(u) ==
    LET username == Username(u)
        name == ProfileName(u)
        email == public_email[u]
    IN  [username |-> username,
         name |-> IF name = <<>> THEN username ELSE name,
         email |-> IF email # <<>> THEN email
                   ELSE IF username \in DOMAIN user_emails
                        THEN user_emails[username]
                        ELSE <<>>]

\* ------------------------------------------------------------------ the card

\* lines 86-92
make_text(text, bold, separator) ==
    <<[type |-> "TextBlock",
       text |-> text,
       separator |-> separator,
       weight |-> IF bold THEN "bolder" ELSE "default"]>>

RECURSIVE Ascending(_)
\* the order a set of small ints is iterated in
Ascending(S) ==
    IF S = {} THEN <<>>
    ELSE LET m == CHOOSE x \in S : \A y \in S : x <= y
         IN  <<m>> \o Ascending(S \ {m})

\* lines 95-96: the profiles of user_ids that have an email
MentionedUsers(user_ids) ==
    LET ids == Ascending(user_ids)
        users == [i \in DOMAIN ids |-> get_user_info(ids[i])]
    IN  SelectSeq(users, LAMBDA user : user.email # <<>>)

\* lines 98, 110-113: the text block of the <at> tags, one per user
MentionParts(users) ==
    <<[type |-> "TextBlock",
       text |-> [i \in DOMAIN users |-> <<"<at>", users[i].name, "</at>">>]]>>

\* lines 99-108
MentionEntities(users) ==
    [i \in DOMAIN users |->
        [type |-> "mention",
         text |-> <<"<at>", users[i].name, "</at>">>,
         mentioned |-> [id |-> users[i].email, name |-> users[i].name]]]

\* lines 197-219: the section of one project
ProjectSection(project, items) ==
    make_text(<<>>, FALSE, FALSE) \o make_text(<<project>>, TRUE, FALSE) \o
    <<[type |-> "ColumnSet",
       columns |-> <<[type |-> "Column", width |-> "auto",
                      items |-> <<[type |-> "TextBlock", text |-> <<>>]>>],
                     [type |-> "Column", width |-> "stretch", separator |-> TRUE,
                      items |-> items]>>]>>

\* lines 138-141
InitialBody ==
    make_text(<<"Happy <weekday> Everyone!">>, FALSE, FALSE) \o
    make_text(<<"Here are the Merge Requests needing review...">>, FALSE, FALSE)

\* lines 183-186: the link to the merge request followed by the label
Title(url, label) == make_text(<<"link", url>> \o label, TRUE, FALSE)


\* ------------------------------------------------------------ the whole run

\* the times a run reads: every merge request was updated on a Monday at 00:00
\* and the clock reads the Tuesday or the Friday after it
RunUpdatedAt == {0}
RunNow == {TicksPerDay, 4 * TicksPerDay}

\* responses of the merge-request list: iids are unique within a project. Of an
\* entry the response fixes iid, draft and updated_at here; reviewers and
\* author are drawn where the loop body reads them (lines 161, 169).
MRLists ==
    UNION {{l \in [1..n -> [iid : Iids, draft : BOOLEAN, updated_at : RunUpdatedAt]] :
                \A i, j \in 1..n : i # j => l[i].iid # l[j].iid} : n \in 0..MaxMRs}

Overrides == {[name \in {Username(u) : u \in S} |-> <<"override", name>>] : S \in SUBSET Users}

NoSummary == <<>>

Snapshot == [body |-> body, notified_mrs |-> notified_mrs,
             notified_people |-> notified_people, calls |-> Len(calls)]

Init ==
    /\ projects \in UNION {[1..n -> ProjectNames] : n \in 0..MaxProjects}
    /\ user_emails \in Overrides
    /\ public_email \in [Users -> {<<>>, <<"public">>}]
    /\ pc = "project"
    /\ project_idx = 1
    /\ project_id = NoProject
    /\ mr_list = <<>>
    /\ mr_pos = 1
    /\ merge_request = <<>>
    /\ discussions = <<>>
    /\ approvers = {}
    /\ authors_unresolved_discussions = {}
    /\ pending = {}
    /\ title = <<>>
    /\ project_body = <<>>
    /\ body = InitialBody
    /\ entities = <<>>
    /\ notified_mrs = {}
    /\ notified_people = {}
    /\ summary = NoSummary
    /\ updated_date = 0
    /\ current_date = 0
    /\ stale_days = 0
    /\ stale = <<>>
    /\ posts = 0
    /\ calls = <<>>
    /\ upstream_failed = FALSE
    /\ evaluated = <<>>
    /\ snapshot = [body |-> InitialBody, notified_mrs |-> {},
                   notified_people |-> {}, calls |-> 0]
    /\ nondraft_fetched = FALSE

Call(kind, arg) == [kind |-> kind, arg |-> arg]

\* lines 31-32, 39-40, 46-47, 56-57, 66-67: the exception of a non-success
\* response is caught nowhere, the script ends
Raise(sent) ==
    /\ calls' = calls \o sent
    /\ upstream_failed' = TRUE
    /\ pc' = "aborted"
    /\ UNCHANGED <<configVars, project_idx, project_id, mr_list, mr_pos, mrVars,
                   evalVars, reportVars, summary, staleVars, posts, evaluated,
                   snapshot, nondraft_fetched>>

\* lines 144-145, 28-34: the next configured project is looked up
GetProjectId ==
    /\ pc = "project"
    /\ project_idx <= Len(projects)
    /\ LET sent == <<Call("search", <<projects[project_idx]>>)>>
       IN  \/ Raise(sent)
           \/ /\ project_id' \in {FirstMatch(projects[project_idx]), NoProject}
              /\ calls' = calls \o sent
              /\ pc' = "merge_requests"
              /\ UNCHANGED <<configVars, project_idx, mr_list, mr_pos, mrVars,
                             evalVars, reportVars, summary, staleVars, posts,
                             upstream_failed, evaluated, snapshot, nondraft_fetched>>

\* line 146: the draft filter
NotDraftKeepsAll(mr) == TRUE

\* line 146: lambda mr: not mr['draft']
NotDraft(mr) == ~mr.draft

\* lines 146-148, 36-41: the open merge requests of the project, behind the
\* lazy filter; project_body starts empty. Upstream has no project None: the
\* request for /projects/None/merge_requests is answered 404.
GetMergeRequests ==
    /\ pc = "merge_requests"
    /\ LET sent == <<Call("merge_requests", <<project_id>>)>>
       IN  \/ Raise(sent)
           \/ /\ project_id # NoProject
              /\ mr_list' \in MRLists
              /\ mr_pos' = 1
              /\ project_body' = <<>>
              /\ calls' = calls \o sent
              /\ snapshot' = [Snapshot EXCEPT !.calls = Len(calls')]
              /\ nondraft_fetched' =
                    (nondraft_fetched \/ \E i \in DOMAIN mr_list' : ~mr_list'[i].draft)
              /\ pc' = "next_mr"
              /\ UNCHANGED <<configVars, project_idx, project_id, mrVars, evalVars,
                             body, entities, notified_mrs, notified_people,
                             summary, staleVars, posts, upstream_failed, evaluated>>

\* the entries the filter has yet to yield
Remaining == {i \in mr_pos..Len(mr_list) : NotDraft(mr_list[i])}

\* line 149: the filter yields the next merge request that is no draft
NextMergeRequest ==
    /\ pc = "next_mr"
    /\ Remaining # {}
    /\ LET i == CHOOSE i \in Remaining : \A j \in Remaining : i <= j
       IN  /\ merge_request' = mr_list[i]
           /\ mr_pos' = i + 1
    /\ pc' = "discussions"
    /\ UNCHANGED <<configVars, project_idx, project_id, mr_list,
                   authors_unresolved_discussions, pending, title, evalVars,
                   reportVars, summary, staleVars, posts, calls, upstream_failed,
                   evaluated, snapshot, nondraft_fetched>>

\* lines 196-219 with a POST of the card after every project
FinishProjectPostsEach ==
    /\ pc = "next_mr"
    /\ Remaining = {}
    /\ mr_pos' = Len(mr_list) + 1
    /\ body' = IF Len(project_body) > 0
               THEN body \o ProjectSection(projects[project_idx], project_body)
               ELSE body
    /\ posts' = IF Len(project_body) > 0 THEN posts + 1 ELSE posts
    /\ project_idx' = project_idx + 1
    /\ pc' = "project"
    /\ UNCHANGED <<configVars, project_id, mr_list, mrVars, evalVars, project_body,
                   entities, notified_mrs, notified_people, summary, staleVars,
                   calls, upstream_failed, evaluated, snapshot, nondraft_fetched>>

\* lines 149, 196-219: the filter is exhausted; the project's section is added
\* when it has lines, and the project loop moves on
FinishProject ==
    /\ pc = "next_mr"
    /\ Remaining = {}
    /\ mr_pos' = Len(mr_list) + 1
    /\ body' = IF Len(project_body) > 0
               THEN body \o ProjectSection(projects[project_idx], project_body)
               ELSE body
    /\ project_idx' = project_idx + 1
    /\ pc' = "project"
    /\ UNCHANGED <<configVars, project_id, mr_list, mrVars, evalVars, project_body,
                   entities, notified_mrs, notified_people, summary, staleVars,
                   posts, calls, upstream_failed, evaluated, snapshot,
                   nondraft_fetched>>

\* lines 150-159, 43-48
GetDiscussions ==
    /\ pc = "discussions"
    /\ LET sent == <<Call("discussions", <<project_id, merge_request.iid>>)>>
       IN  \/ Raise(sent)
           \/ /\ \E response \in DiscussionLists(Users, MaxRunNotes) :
                    authors_unresolved_discussions' = AuthorsUnresolvedDiscussions(response)
              /\ calls' = calls \o sent
              /\ pc' = "approvals"
              /\ UNCHANGED <<configVars, project_idx, project_id, mr_list, mr_pos,
                             merge_request, pending, title, evalVars, reportVars,
                             summary, staleVars, posts, upstream_failed, evaluated,
                             snapshot, nondraft_fetched>>

Url == <<project_id, merge_request.iid>>

\* lines 161-186, 53-61: the approvals, the pending set and the title
RequestApprovers ==
    /\ pc = "approvals"
    /\ LET sent == <<Call("approvals", <<project_id, merge_request.iid>>)>>
       IN  \/ Raise(sent)
           \/ /\ \E reviewers \in SUBSET Users, approved_by \in SUBSET Users, author \in Users :
                    pending' = Pending(reviewers, approved_by,
                                       authors_unresolved_discussions, author)
              /\ \E now \in RunNow :
                    title' = Title(Url, StaleLabel(StaleDays(merge_request.updated_at, now)))
              /\ evaluated' = Append(evaluated, [url |-> Url, pending |-> pending'])
              /\ calls' = calls \o sent
              /\ pc' = "mentions"
              /\ UNCHANGED <<configVars, project_idx, project_id, mr_list, mr_pos,
                             merge_request, authors_unresolved_discussions, evalVars,
                             reportVars, summary, staleVars, posts, upstream_failed,
                             snapshot, nondraft_fetched>>

UserCalls(ids) == [i \in DOMAIN ids |-> Call("users", <<ids[i]>>)]

\* line 194 adding only the people who are mentioned
NotifiedAfterMentionedOnly(people) ==
    notified_people \cup {u \in people : get_user_info(u).email # <<>>}

\* line 194: notified_people.update(pending)
NotifiedAfter(people) == notified_people \cup people

\* lines 188-194, 94-113, 63-68: one profile request per pending user, then the
\* title and the mentions join the project's lines and the accumulators grow
MakeMentions ==
    /\ pc = "mentions"
    /\ LET ids == Ascending(pending)
       IN  \/ \E k \in DOMAIN ids : Raise(UserCalls(SubSeq(ids, 1, k)))
           \/ /\ LET users == MentionedUsers(pending)
                 IN  /\ project_body' = project_body \o title \o MentionParts(users)
                     /\ entities' = entities \o MentionEntities(users)
              /\ notified_mrs' = notified_mrs \cup {merge_request.iid}
              /\ notified_people' = NotifiedAfter(pending)
              /\ calls' = calls \o UserCalls(ids)
              /\ pc' = "next_mr"
              /\ UNCHANGED <<configVars, project_idx, project_id, mr_list, mr_pos,
                             mrVars, evalVars, body, summary, staleVars, posts,
                             upstream_failed, evaluated, snapshot, nondraft_fetched>>

\* line 221 with >= for >
ShouldDeliverAlways == Cardinality(notified_people) >= 0

\* line 221
ShouldDeliver == Cardinality(notified_people) > 0

\* lines 143-144, 221-224: the project loop is over; the card is posted when
\* somebody is to be notified. requests.post raises when the transport fails.
Deliver ==
    /\ pc = "project"
    /\ project_idx > Len(projects)
    /\ IF ShouldDeliver
       THEN /\ posts' = posts + 1
            /\ pc' \in {"summary", "post_failed"}
       ELSE /\ posts' = posts
            /\ pc' = "summary"
    /\ UNCHANGED <<configVars, project_idx, project_id, mr_list, mr_pos, mrVars,
                   evalVars, reportVars, summary, staleVars, calls, upstream_failed,
                   evaluated, snapshot, nondraft_fetched>>

\* line 226
PrintSummary ==
    /\ pc = "summary"
    /\ summary' = <<Cardinality(notified_people), Cardinality(notified_mrs)>>
    /\ pc' = "done"
    /\ UNCHANGED <<configVars, project_idx, project_id, mr_list, mr_pos, mrVars,
                   evalVars, reportVars, staleVars, posts, calls, upstream_failed,
                   evaluated, snapshot, nondraft_fetched>>

Next ==
    \/ GetProjectId
    \/ GetMergeRequests
    \/ NextMergeRequest
    \/ FinishProject
    \/ GetDiscussions
    \/ RequestApprovers
    \/ MakeMentions
    \/ Deliver
    \/ PrintSummary

Spec == Init /\ [][Next]_vars


\* ----------------------------------------------- the decision, on its own

runVars == <<configVars, project_idx, project_id, mr_list, mr_pos, title,
             reportVars, summary, posts, calls, upstream_failed, evaluated,
             snapshot, nondraft_fetched>>

InitRest ==
    /\ projects = <<>>
    /\ user_emails = <<>>
    /\ public_email = [u \in Users |-> <<>>]
    /\ project_idx = 1
    /\ project_id = NoProject
    /\ mr_list = <<>>
    /\ mr_pos = 1
    /\ title = <<>>
    /\ project_body = <<>>
    /\ body = InitialBody
    /\ entities = <<>>
    /\ notified_mrs = {}
    /\ notified_people = {}
    /\ summary = NoSummary
    /\ posts = 0
    /\ calls = <<>>
    /\ upstream_failed = FALSE
    /\ evaluated = <<>>
    /\ snapshot = [body |-> InitialBody, notified_mrs |-> {},
                   notified_people |-> {}, calls |-> 0]
    /\ nondraft_fetched = FALSE

\* a merge request that is open and no draft has reached line 150
InitEval ==
    /\ InitRest
    /\ pc = "discussions"
    /\ merge_request \in [iid : {1}, draft : {FALSE}, updated_at : {0},
                          author : EvalUsers, reviewers : SUBSET EvalUsers]
    /\ discussions = <<>>
    /\ approvers = {}
    /\ authors_unresolved_discussions = {}
    /\ pending = {}
    /\ updated_date = 0
    /\ current_date = 0
    /\ stale_days = 0
    /\ stale = <<>>

\* lines 153-159
EvalDiscussions ==
    /\ pc = "discussions"
    /\ discussions' \in DiscussionLists(EvalUsers, MaxNotes)
    /\ authors_unresolved_discussions' = AuthorsUnresolvedDiscussions(discussions')
    /\ pc' = "approvals"
    /\ UNCHANGED <<runVars, staleVars, merge_request, approvers, pending>>

\* lines 161-169
EvalApprovers ==
    /\ pc = "approvals"
    /\ approvers' \in SUBSET EvalUsers
    /\ pending' = Pending(merge_request.reviewers, approvers',
                          authors_unresolved_discussions, merge_request.author)
    /\ pc' = "evaluated"
    /\ UNCHANGED <<runVars, staleVars, merge_request, discussions,
                   authors_unresolved_discussions>>

NextEval == EvalDiscussions \/ EvalApprovers

SpecEval == InitEval /\ [][NextEval]_vars

\* ---------------------------------------------- the staleness, on its own

Instants == 0 .. (MaxDay + 1) * TicksPerDay - 1

\* line 171-173: updated_at of the merge request and the clock
InitStale ==
    /\ InitRest
    /\ pc = "stale"
    /\ merge_request = <<>>
    /\ discussions = <<>>
    /\ approvers = {}
    /\ authors_unresolved_discussions = {}
    /\ pending = {}
    /\ updated_date \in Instants
    /\ current_date \in Instants
    /\ stale_days = 0
    /\ stale = <<>>

\* lines 176-181
ComputeStale ==
    /\ pc = "stale"
    /\ stale_days' = StaleDays(updated_date, current_date)
    /\ stale' = StaleLabel(stale_days')
    /\ pc' = "titled"
    /\ UNCHANGED <<runVars, evalVars, merge_request, authors_unresolved_discussions,
                   pending, updated_date, current_date>>

NextStale == ComputeStale

SpecStale == InitStale /\ [][NextStale]_vars


\* =================================================================== claims

\* ---------------------------------------------------- the decision (SpecEval)

\* the identities that authored a note whose resolved flag is present and false
ExplicitlyUnresolved ==
    {u \in EvalUsers :
        \E d \in DOMAIN discussions :
            \E n \in DOMAIN discussions[d].notes :
                LET note == discussions[d].notes[n]
                IN  /\ note.author = u
                    /\ "resolved" \in DOMAIN note
                    /\ note.resolved = FALSE}

\* some note carries no resolved flag, or a true one
SomeNoteNotUnresolved ==
    \E d \in DOMAIN discussions :
        \E n \in DOMAIN discussions[d].notes :
            LET note == discussions[d].notes[n]
            IN  "resolved" \notin DOMAIN note \/ note.resolved

Decided == pc = "evaluated"

\* C1, as stated: when some note is explicitly unresolved, no author of such a
\* note is in the set of people notified for the merge request, and the merge
\* request's author is in it.
C1_UnresolvedAuthorsNeverNotified ==
    (Decided /\ ExplicitlyUnresolved # {}) =>
        /\ ExplicitlyUnresolved \cap pending = {}
        /\ merge_request.author \in pending

\* C1, amended: when some note is explicitly unresolved, no author of such a
\* note other than the merge request's author is in the pending set the
\* escalation rule leaves, and the merge request's author is in it.
C1_UnresolvedAuthorsButMrAuthorNeverNotified ==
    (Decided /\ ExplicitlyUnresolved # {}) =>
        /\ (ExplicitlyUnresolved \ {merge_request.author}) \cap pending = {}
        /\ merge_request.author \in pending

\* C1: the author is a reviewer and wrote an unresolved note, and another
\* reviewer who has not approved wrote one too
C1_Witness ==
    /\ Decided
    /\ merge_request.author \in merge_request.reviewers
    /\ merge_request.author \in ExplicitlyUnresolved
    /\ \E u \in ExplicitlyUnresolved :
          u # merge_request.author /\ u \in merge_request.reviewers \ approvers
    /\ merge_request.author \in pending

\* C2: when reviewers minus approvers is empty and no note is explicitly
\* unresolved, the set of people notified is exactly {author}.
C2_NobodyPendingNotifiesAuthorOnly ==
    (Decided /\ merge_request.reviewers \ approvers = {} /\ ExplicitlyUnresolved = {}) =>
        pending = {merge_request.author}

\* C2: every reviewer has approved, the author is no reviewer, and the notes
\* there are carry no false flag
C2_Witness ==
    /\ Decided
    /\ merge_request.reviewers # {}
    /\ merge_request.reviewers \subseteq approvers
    /\ merge_request.author \notin merge_request.reviewers
    /\ ExplicitlyUnresolved = {}
    /\ SomeNoteNotUnresolved
    /\ pending = {merge_request.author}

\* C3: when no note is explicitly unresolved and reviewers minus approvers is
\* not empty, the set of people notified is exactly reviewers minus approvers:
\* no approver in it, and the author only as a non-approving reviewer.
C3_PendingIsReviewersMinusApprovers ==
    (Decided /\ ExplicitlyUnresolved = {} /\ merge_request.reviewers \ approvers # {}) =>
        /\ pending = merge_request.reviewers \ approvers
        /\ pending \cap approvers = {}
        /\ (merge_request.author \in pending <=>
                merge_request.author \in merge_request.reviewers \ approvers)

\* C3: of two reviewers one approved and one did not, and the author, who
\* approved, is not notified
C3_Witness ==
    /\ Decided
    /\ ExplicitlyUnresolved = {}
    /\ merge_request.reviewers \cap approvers # {}
    /\ merge_request.reviewers \ approvers # {}
    /\ merge_request.author \in approvers
    /\ merge_request.author \notin pending
    /\ pending = merge_request.reviewers \ approvers

\* --------------------------------------------------- staleness (SpecStale)

DayOf(t) == t \div TicksPerDay

\* the Monday-to-Friday calendar days after the day of `from` up to the day of `to`
WeekdaysBetween(from, to) ==
    Cardinality({day \in DayOf(from) + 1 .. DayOf(to) : day % 7 < 5})

Finished == pc \in {"summary", "done", "post_failed"}

\* an identity has an email: a public one, or an entry of the override mapping
HasEmail(u) == public_email[u] # <<>> \/ Username(u) \in DOMAIN user_emails

\* the name an identity is displayed with
NameOf(u) == IF ProfileName(u) = <<>> THEN Username(u) ELSE ProfileName(u)

RECURSIVE SectionItems(_)
\* the lines of the project sections of a card body, in order
SectionItems(blocks) ==
    IF blocks = <<>> THEN <<>>
    ELSE (IF Head(blocks).type = "ColumnSet" THEN Head(blocks).columns[2].items ELSE <<>>)
         \o SectionItems(Tail(blocks))

ReportItems == SectionItems(body)
\* a merge request takes two lines: its title, then its mentions
ReportSize == Len(ReportItems) \div 2
ReportUrl(i) == ReportItems[2 * i - 1].text[2]
ReportMentions(i) == ReportItems[2 * i].text
ReportUrls == {ReportUrl(i) : i \in 1..ReportSize}

\* C4: once an upstream call has answered with a non-success status, the run is
\* over: no webhook POST has been or will be made, and no summary is printed.
C4_UpstreamFailureAbortsRun ==
    upstream_failed => (pc = "aborted" /\ posts = 0 /\ summary = NoSummary)

\* C4: the failure comes after a project has been processed with success and
\* has somebody to notify
C4_Witness ==
    /\ upstream_failed
    /\ project_idx = 2
    /\ notified_people # {}
    /\ ReportSize > 0
    /\ posts = 0

\* C5, as stated: a merge request is in the report iff the identities of its
\* pending set that have an email are not none.
C5_IncludedIffMentionableNonEmpty ==
    Finished =>
        \A i \in DOMAIN evaluated :
            (evaluated[i].url \in ReportUrls) <=>
                ({u \in evaluated[i].pending : HasEmail(u)} # {})

\* C5, amended: a merge request is in the report iff its pending set after the
\* escalation rule, before the email filter, is not empty; that is so for
\* every merge request processed, each of which is in the report once per time
\* it was processed, in processing order.
C5_IncludedIffPendingNonEmpty ==
    Finished =>
        /\ ReportSize = Len(evaluated)
        /\ \A i \in DOMAIN evaluated :
            /\ ReportUrl(i) = evaluated[i].url
            /\ evaluated[i].pending # {}

\* C5: a merge request whose pending identities all lack an email is in the
\* report that is posted
C5_Witness ==
    /\ pc = "done"
    /\ posts = 1
    /\ \E i \in DOMAIN evaluated :
        /\ {u \in evaluated[i].pending : HasEmail(u)} = {}
        /\ ReportUrl(i) = evaluated[i].url
        /\ ReportMentions(i) = <<>>

\* C6: without upstream failure, no POST is made before every project and
\* merge request has been processed; when processing is over none is made if
\* nobody is to be notified, and exactly one otherwise.
C6_OnePostAfterAllProjects ==
    /\ posts > 0 => (Finished /\ project_idx = Len(projects) + 1)
    /\ Finished => posts = (IF notified_people = {} THEN 0 ELSE 1)

\* C6: two projects were processed, both with output, and one POST was made
C6_Witness ==
    /\ pc = "done"
    /\ Len(projects) = 2
    /\ Len(body) = Len(InitialBody) + 6
    /\ posts = 1

\* C8: an identity without an email is in no mention text and no mention
\* entity, one with an email that is pending is in both; every pending
\* identity, with an email or not, is counted in notified_people, which
\* decides the delivery and is the X of the summary.
C8_EmailFilterOnlyAtRendering ==
    Finished =>
        /\ \A i \in 1..ReportSize :
            \A u \in Users :
                (\E k \in DOMAIN ReportMentions(i) : ReportMentions(i)[k][2] = NameOf(u))
                    <=> (u \in evaluated[i].pending /\ HasEmail(u))
        /\ \A u \in Users :
            (\E k \in DOMAIN entities : entities[k].mentioned.name = NameOf(u))
                <=> (HasEmail(u) /\ \E i \in DOMAIN evaluated : u \in evaluated[i].pending)
        /\ notified_people = UNION {evaluated[i].pending : i \in DOMAIN evaluated}
        /\ posts = (IF \E i \in DOMAIN evaluated : evaluated[i].pending # {} THEN 1 ELSE 0)
        /\ pc = "done" => summary[1] = Cardinality(notified_people)

\* C8: nobody who is pending has an email, yet the card is posted and the
\* summary counts them
C8_Witness ==
    /\ pc = "done"
    /\ posts = 1
    /\ entities = <<>>
    /\ \A u \in notified_people : ~HasEmail(u)
    /\ summary[1] = Cardinality(notified_people)
    /\ summary[1] > 0

AllDraft(list) == \A i \in DOMAIN list : list[i].draft

\* C9: a project whose list is empty or holds only drafts adds no section and
\* nothing to the accumulators; for a draft no discussions and no approvals
\* are requested and it gets no line; when no project has a merge request
\* that is no draft, no POST is made.
C9_DraftsAndEmptyProjectsAddNothing ==
    /\ AllDraft(mr_list) =>
        /\ body = snapshot.body
        /\ project_body = <<>>
        /\ notified_mrs = snapshot.notified_mrs
        /\ notified_people = snapshot.notified_people
    /\ \A c \in snapshot.calls + 1 .. Len(calls) :
        calls[c].kind \in {"discussions", "approvals"} =>
            \E j \in DOMAIN mr_list : ~mr_list[j].draft /\ mr_list[j].iid = calls[c].arg[2]
    /\ \A k \in 1..(Len(project_body) \div 2) :
        \E j \in DOMAIN mr_list :
            ~mr_list[j].draft /\ mr_list[j].iid = project_body[2 * k - 1].text[2][2]
    /\ ~nondraft_fetched =>
        /\ posts = 0
        /\ body = InitialBody
        /\ notified_mrs = {}
        /\ notified_people = {}
        /\ \A c \in DOMAIN calls : calls[c].kind \in {"search", "merge_requests"}

\* C9: the first project has output, the second holds one draft and adds
\* nothing
C9_Witness ==
    /\ pc = "done"
    /\ Len(projects) = 2
    /\ mr_list # <<>>
    /\ AllDraft(mr_list)
    /\ body = snapshot.body
    /\ ReportSize = 1

\* C10: the Y of the summary is the number of distinct (project, merge request)
\* pairs processed.
C10_SummaryCountsProjectMrPairs ==
    pc = "done" =>
        summary[2] = Cardinality({evaluated[i].url : i \in DOMAIN evaluated})

====
